---- MODULE Spec2Model ----
(***************************************************************************)
(* SubscriptionSaver (src/app.py): a Flask application over two tables,    *)
(* "user" and "subscription", with flask_login sessions and a Stripe       *)
(* checkout.  The state is the two tables, every browser's session cookie, *)
(* the position of every request in flight, the server's date and the      *)
(* response sent last.  Text arriving in a form is a sequence of           *)
(* one-character strings, so that strip(), lower(), float() and strptime() *)
(* are computed, not assumed.                                              *)
(***************************************************************************)
EXTENDS Integers, Sequences, FiniteSets, TLC

VARIABLES
    users,      \* table "user": row id i is users[i]
    subs,       \* table "subscription": a set of rows
    session,    \* flask_login: client -> user id, 0 when anonymous
    pc,         \* client -> position of its request in flight
    req,        \* client -> the form and identity of the request in flight
    today,      \* datetime.utcnow().date(), as a proleptic ordinal
    last        \* the response sent last, with the request it answers

vars == <<users, subs, session, pc, req, today, last>>

----------------------------------------------------------------------------
(* Bounds of the model *)

MaxSubs == 2
MaxTicks == 1
AuthSubs == 1

(* Program constant *)
FREE_LIMIT == 5

----------------------------------------------------------------------------
(* str.strip(), str.lower() *)

IsSpace(ch) == ch \in {" ", "\t", "\n"}

RECURSIVE lstrip(_)
lstrip(s) == IF s # <<>> /\ IsSpace(Head(s)) THEN lstrip(Tail(s)) ELSE s

RECURSIVE rstrip(_)
rstrip(s) ==
    IF s # <<>> /\ IsSpace(s[Len(s)]) THEN rstrip(SubSeq(s, 1, Len(s) - 1)) ELSE s

strip(s) == rstrip(lstrip(s))

LowerChar(ch) ==
    CASE ch = "A" -> "a"
      [] ch = "B" -> "b"
      [] ch = "X" -> "x"
      [] OTHER -> ch

lower(s) == [i \in 1..Len(s) |-> LowerChar(s[i])]

----------------------------------------------------------------------------
(* float(): on the texts the model submits (sign, decimal digits, blanks,  *)
(* letters) float() accepts an optionally signed digit string, surrounded  *)
(* by blanks, and raises ValueError on everything else.                    *)

Digits == <<"0", "1", "2", "3", "4", "5", "6", "7", "8", "9">>

IsDigit(ch) == \E d \in 1..10 : Digits[d] = ch

DigitVal(ch) == (CHOOSE d \in 1..10 : Digits[d] = ch) - 1

AllDigits(s) == s # <<>> /\ \A i \in 1..Len(s) : IsDigit(s[i])

RECURSIVE NatVal(_)
NatVal(s) ==
    IF s = <<>> THEN 0
    ELSE 10 * NatVal(SubSeq(s, 1, Len(s) - 1)) + DigitVal(s[Len(s)])

float(s) ==
    LET t == strip(s)
        signed == t # <<>> /\ Head(t) \in {"-", "+"}
        body == IF signed THEN Tail(t) ELSE t
    IN  IF AllDigits(body)
        THEN [ok |-> TRUE,
              val |-> IF signed /\ Head(t) = "-" THEN 0 - NatVal(body) ELSE NatVal(body)]
        ELSE [ok |-> FALSE, val |-> 0]

----------------------------------------------------------------------------
(* datetime.strptime(s, "%Y-%m-%d").date(), and date arithmetic *)

RECURSIVE Split(_, _)
Split(s, sep) ==
    IF \E i \in 1..Len(s) : s[i] = sep
    THEN LET i == CHOOSE k \in 1..Len(s) :
                      s[k] = sep /\ \A j \in 1..(k - 1) : s[j] # sep
         IN  <<SubSeq(s, 1, i - 1)>> \o Split(SubSeq(s, i + 1, Len(s)), sep)
    ELSE <<s>>

IsLeap(y) == (y % 4 = 0) /\ ((y % 100 # 0) \/ (y % 400 = 0))

DaysInMonth(y, m) ==
    IF m = 2 THEN (IF IsLeap(y) THEN 29 ELSE 28)
    ELSE IF m \in {4, 6, 9, 11} THEN 30 ELSE 31

RECURSIVE DaysBeforeMonth(_, _)
DaysBeforeMonth(y, m) ==
    IF m = 1 THEN 0 ELSE DaysBeforeMonth(y, m - 1) + DaysInMonth(y, m - 1)

\* date.toordinal(): 0001-01-01 is day 1
Ordinal(y, m, d) ==
    365 * (y - 1) + ((y - 1) \div 4) - ((y - 1) \div 100) + ((y - 1) \div 400)
        + DaysBeforeMonth(y, m) + d

\* %Y is four digits; %m and %d are one or two digits, in 1..12 and 1..31;
\* date() then rejects a day the month does not have, and year 0.
strptime(s) ==
    LET p == Split(s, "-")
        shaped == /\ Len(p) = 3
                  /\ Len(p[1]) = 4 /\ AllDigits(p[1])
                  /\ Len(p[2]) \in {1, 2} /\ AllDigits(p[2])
                  /\ Len(p[3]) \in {1, 2} /\ AllDigits(p[3])
        y == NatVal(p[1])
        m == NatVal(p[2])
        d == NatVal(p[3])
    IN  IF shaped /\ y >= 1 /\ m \in 1..12 /\ d >= 1 /\ d <= DaysInMonth(y, m)
        THEN [ok |-> TRUE, val |-> Ordinal(y, m, d)]
        ELSE [ok |-> FALSE, val |-> 0]

----------------------------------------------------------------------------
(* werkzeug.security *)

generate_password_hash(password) == <<"hash", password>>

\* a check that looks at the hash alone
check_password_hash_any(pwhash, password) == pwhash[1] = "hash"

check_password_hash(pwhash, password) == pwhash = <<"hash", password>>

----------------------------------------------------------------------------
(* Queries *)

Clients == {"c1", "c2"}

UserIds == 1..Len(users)

\* User.query.filter_by(email=email).first(): the row id, 0 for None
UserByEmail(email) ==
    IF \E i \in UserIds : users[i].email = email
    THEN CHOOSE i \in UserIds :
             users[i].email = email /\ \A j \in 1..(i - 1) : users[j].email # email
    ELSE 0

\* the query without its filter
SubsOfAnyOwner(uid) == subs

\* Subscription.query.filter_by(user_id=uid)
SubsOf(uid) == {s \in subs : s.user_id = uid}

\* the query filtered by id alone
OwnedSubAnyOwner(sub_id, uid) == {s \in subs : s.id = sub_id}

\* Subscription.query.filter_by(id=sub_id, user_id=uid)
OwnedSub(sub_id, uid) == {s \in subs : s.id = sub_id /\ s.user_id = uid}

\* SQLite INTEGER PRIMARY KEY: one more than the largest row id in the table
NextSubId ==
    IF subs = {} THEN 1
    ELSE 1 + (CHOOSE n \in {s.id : s \in subs} : \A s \in subs : s.id <= n)

\* The orders in which a query without ORDER BY may return the rows S
RECURSIVE Orders(_)
Orders(S) ==
    IF S = {} THEN {<<>>}
    ELSE UNION {{<<x>> \o o : o \in Orders(S \ {x})} : x \in S}

RECURSIVE sum(_)
sum(q) == IF q = <<>> THEN 0 ELSE sum(SubSeq(q, 1, Len(q) - 1)) + q[Len(q)]

----------------------------------------------------------------------------
(* Helpers *)

upcoming_badge(date_obj) == (date_obj - today) <= 7

----------------------------------------------------------------------------
(* Responses *)

NoForm == [none |-> TRUE]
NoView == [none |-> TRUE]
NoReq == [none |-> TRUE]

Response(c, route, form, status, flash, to, view) ==
    [client |-> c, route |-> route, form |-> form, status |-> status,
     flash |-> flash, to |-> to, view |-> view]

Redirect(c, route, form, flash, to) ==
    last' = Response(c, route, form, 302, flash, to, NoView)

MsgQuota == "Free limit reached (5). Upgrade for unlimited."
MsgInvalid == "Please fill in all fields with valid values."
MsgAdded == "Added subscription"                    \* followed by the name
MsgRequired == "Email and password are required."
MsgDuplicate == "Email already registered - try logging in."
MsgCreated == "Account created - you're now logged in"
MsgBadLogin == "Invalid email or password"
MsgLoggedIn == "Logged in"
MsgLoggedOut == "Logged out"
MsgDeleted == "Subscription deleted"
MsgMissing == "Missing session id."
MsgUpgraded == "Upgrade successful! Your account is now Premium."
MsgUnpaid == "Payment not completed yet."
MsgStripe == "Could not verify payment"              \* followed by the exception
MsgLoginFirst == "Please log in to access this page."

\* @login_required on an anonymous request: flask_login redirects to login_view
Unauthorized(c, route, form) ==
    /\ Redirect(c, route, form, MsgLoginFirst, "login")
    /\ UNCHANGED <<users, subs, session, pc, req, today>>

----------------------------------------------------------------------------
Init ==
    /\ users = <<>>
    /\ subs = {}
    /\ session = [c \in Clients |-> 0]
    /\ pc = [c \in Clients |-> "idle"]
    /\ req = [c \in Clients |-> NoReq]
    /\ today = Ordinal(2024, 1, 1)
    /\ last = Response("c1", "start", NoForm, 200, "", "", NoView)

----------------------------------------------------------------------------
(* POST /  (index): the quota guard and the parsing of the form.  The      *)
(* handler reads the table here (the count) and writes it at commit();     *)
(* requests of other clients may run in between.                           *)

\* the guard with > for >=
QuotaReachedOffByOne(uid) ==
    ~users[uid].premium /\ Cardinality(SubsOf(uid)) > FREE_LIMIT

\* Free-plan guard
QuotaReached(uid) ==
    ~users[uid].premium /\ Cardinality(SubsOf(uid)) >= FREE_LIMIT

index_POST(c, form) ==
    /\ pc[c] = "idle"
    /\ IF session[c] = 0
       THEN \* logged-out visitors see the public landing page
            /\ last' = Response(c, "index", form, 200, "", "", NoView)
            /\ UNCHANGED <<users, subs, session, pc, req, today>>
       ELSE LET uid == session[c]
                price_raw == strip(form.price)
                date_str == strip(form.date)
            IN  IF QuotaReached(uid)
                THEN /\ Redirect(c, "index", form, MsgQuota, "index")
                     /\ UNCHANGED <<users, subs, session, pc, req, today>>
                ELSE IF ~float(price_raw).ok \/ ~strptime(date_str).ok
                THEN /\ Redirect(c, "index", form, MsgInvalid, "index")
                     /\ UNCHANGED <<users, subs, session, pc, req, today>>
                ELSE /\ pc' = [pc EXCEPT ![c] = "add_commit"]
                     /\ req' = [req EXCEPT ![c] = [form |-> form, user_id |-> uid]]
                     /\ UNCHANGED <<users, subs, session, today, last>>

\* the row built from the name as it arrived
NewSubscriptionUnstripped(form, uid) ==
    [id |-> NextSubId,
     name |-> form.name,
     price |-> float(strip(form.price)).val,
     renewal_date |-> strptime(strip(form.date)).val,
     user_id |-> uid]

\* Subscription(name=name, price=price, renewal_date=date_val, user_id=...)
NewSubscription(form, uid) ==
    [id |-> NextSubId,
     name |-> strip(form.name),
     price |-> float(strip(form.price)).val,
     renewal_date |-> strptime(strip(form.date)).val,
     user_id |-> uid]

\* db.session.add(sub); db.session.commit()
index_POST_commit(c) ==
    /\ pc[c] = "add_commit"
    /\ subs' = subs \cup {NewSubscription(req[c].form, req[c].user_id)}
    /\ pc' = [pc EXCEPT ![c] = "idle"]
    /\ req' = [req EXCEPT ![c] = NoReq]
    /\ Redirect(c, "index", req[c].form, MsgAdded, "index")
    /\ UNCHANGED <<users, session, today>>

(* GET /  (index): the dashboard *)

Dashboard(uid, listed) ==
    [subscriptions |-> listed,
     subs_total |-> sum([i \in 1..Len(listed) |-> listed[i].price]),
     upcoming_names |->
         LET due == SelectSeq(listed, LAMBDA s : upcoming_badge(s.renewal_date))
         IN  [i \in 1..Len(due) |-> due[i].name],
     is_premium |-> users[uid].premium]

index_GET(c) ==
    /\ pc[c] = "idle"
    /\ IF session[c] = 0
       THEN last' = Response(c, "index", NoForm, 200, "", "", NoView)
       ELSE \E listed \in Orders(SubsOf(session[c])) :
                last' = Response(c, "index", NoForm, 200, "", "",
                                 Dashboard(session[c], listed))
    /\ UNCHANGED <<users, subs, session, pc, req, today>>

----------------------------------------------------------------------------
(* POST /signup *)

signup(c, form) ==
    /\ pc[c] = "idle"
    /\ LET email == lower(strip(form.email))
           password == strip(form.password)
       IN  IF email = <<>> \/ password = <<>>
           THEN /\ Redirect(c, "signup", form, MsgRequired, "signup")
                /\ UNCHANGED <<users, subs, session, pc, req, today>>
           ELSE IF UserByEmail(email) # 0
           THEN /\ Redirect(c, "signup", form, MsgDuplicate, "login")
                /\ UNCHANGED <<users, subs, session, pc, req, today>>
           ELSE /\ pc' = [pc EXCEPT ![c] = "user_commit"]
                /\ req' = [req EXCEPT ![c] = [form |-> form, user_id |-> 0]]
                /\ UNCHANGED <<users, subs, session, today, last>>

\* the column without unique=True
UniqueEmailUnchecked(email) == TRUE

\* email = db.Column(db.String(255), unique=True, ...): the INSERT of a second
\* row with the same email raises IntegrityError
UniqueEmail(email) == \A i \in UserIds : users[i].email # email

\* db.session.add(user); db.session.commit(); login_user(user)
signup_commit(c) ==
    /\ pc[c] = "user_commit"
    /\ pc' = [pc EXCEPT ![c] = "idle"]
    /\ req' = [req EXCEPT ![c] = NoReq]
    /\ LET email == lower(strip(req[c].form.email))
           password == strip(req[c].form.password)
       IN  IF UniqueEmail(email)
           THEN /\ users' = Append(users, [email |-> email,
                                           password_hash |-> generate_password_hash(password),
                                           premium |-> FALSE])
                /\ session' = [session EXCEPT ![c] = Len(users) + 1]
                /\ Redirect(c, "signup", req[c].form, MsgCreated, "index")
           ELSE /\ last' = Response(c, "signup", req[c].form, 500, "", "", NoView)
                /\ UNCHANGED <<users, session>>
    /\ UNCHANGED <<subs, today>>

(* POST /login *)

login(c, form) ==
    /\ pc[c] = "idle"
    /\ LET email == lower(strip(form.email))
           password == strip(form.password)
           user == UserByEmail(email)
       IN  IF user = 0 \/ ~check_password_hash(users[user].password_hash, password)
           THEN /\ Redirect(c, "login", form, MsgBadLogin, "login")
                /\ UNCHANGED session
           ELSE /\ session' = [session EXCEPT ![c] = user]
                /\ Redirect(c, "login", form, MsgLoggedIn, "index")
    /\ UNCHANGED <<users, subs, pc, req, today>>

(* GET /logout *)

logout(c) ==
    /\ pc[c] = "idle"
    /\ IF session[c] = 0
       THEN Unauthorized(c, "logout", NoForm)
       ELSE /\ session' = [session EXCEPT ![c] = 0]
            /\ Redirect(c, "logout", NoForm, MsgLoggedOut, "index")
            /\ UNCHANGED <<users, subs, pc, req, today>>

----------------------------------------------------------------------------
(* /delete/<int:sub_id> *)

delete(c, sub_id) ==
    /\ pc[c] = "idle"
    /\ IF session[c] = 0
       THEN Unauthorized(c, "delete", [sub_id |-> sub_id])
       ELSE LET found == OwnedSub(sub_id, session[c])
            IN  IF found = {}
                THEN \* first_or_404()
                     /\ last' = Response(c, "delete", [sub_id |-> sub_id], 404, "", "", NoView)
                     /\ UNCHANGED <<users, subs, session, pc, req, today>>
                ELSE /\ subs' = subs \ found
                     /\ Redirect(c, "delete", [sub_id |-> sub_id], MsgDeleted, "index")
                     /\ UNCHANGED <<users, session, pc, req, today>>

----------------------------------------------------------------------------
(* GET /upgrade/success.  stripe.checkout.Session.retrieve() is the payment *)
(* provider's answer: "paid", another payment_status, or an exception.      *)

StripeAnswers == {"paid", "unpaid", "error"}

\* the flag flipped instead of set
mark_premium_toggle(table, uid) == [table EXCEPT ![uid].premium = ~@]

\* current_user.premium = True; db.session.commit()
mark_premium(table, uid) == [table EXCEPT ![uid].premium = TRUE]

\* what the handler reads: request.args and current_user
UpgradeRequest(c, session_id) ==
    [session_id |-> session_id,
     premium |-> IF session[c] = 0 THEN FALSE ELSE users[session[c]].premium]

upgrade_success(c, session_id, answer) ==
    /\ pc[c] = "idle"
    /\ IF session[c] = 0
       THEN Unauthorized(c, "upgrade_success", UpgradeRequest(c, session_id))
       ELSE IF session_id = <<>>
       THEN /\ Redirect(c, "upgrade_success", UpgradeRequest(c, session_id), MsgMissing, "upgrade")
            /\ UNCHANGED <<users, subs, session, pc, req, today>>
       ELSE /\ users' = IF answer = "paid" THEN mark_premium(users, session[c]) ELSE users
            /\ Redirect(c, "upgrade_success", UpgradeRequest(c, session_id),
                        CASE answer = "paid" -> MsgUpgraded
                          [] answer = "unpaid" -> MsgUnpaid
                          [] OTHER -> MsgStripe,
                        "index")
            /\ UNCHANGED <<subs, session, pc, req, today>>

----------------------------------------------------------------------------
(* The server's clock *)

Tick ==
    /\ today < Ordinal(2024, 1, 1) + MaxTicks
    /\ today' = today + 1
    /\ UNCHANGED <<users, subs, session, pc, req, last>>

----------------------------------------------------------------------------
(* What the clients submit *)

EmailA == <<"a", "@", "x">>
EmailUpperA == <<"A", "@", "x">>
EmailPaddedA == <<" ", "a", "@", "x", " ">>
EmailB == <<"b", "@", "x">>

Credentials(email, password) == [email |-> email, password |-> password]

Date0108 == <<"2", "0", "2", "4", "-", "0", "1", "-", "0", "8">>
Date0109 == <<"2", "0", "2", "4", "-", "0", "1", "-", "0", "9">>
Date1231 == <<"2", "0", "2", "3", "-", "1", "2", "-", "3", "1">>
Date0230 == <<"2", "0", "2", "4", "-", "0", "2", "-", "3", "0">>

SubForm(name, price, date) == [name |-> name, price |-> price, date |-> date]

\* the add steps in flight
PendingAdds == Cardinality({c \in Clients : pc[c] = "add_commit"})

\* an add is let through to its commit only while the table has room for it
Room(cap) == \A c \in Clients :
    (pc[c] = "idle" /\ pc'[c] = "add_commit") => Cardinality(subs) + PendingAdds < cap

----------------------------------------------------------------------------
(* Spec: one browser; the repository and the dashboard on forms of every   *)
(* kind.                                                                   *)

Browsers == {"c1"}

Accounts == {Credentials(EmailA, <<"p">>), Credentials(EmailB, <<"p">>)}

SubForms ==
    { SubForm(<<"a">>, <<"2">>, Date0108),
      SubForm(<<" ", "a", " ">>, <<" ", "2">>, Date0108),
      SubForm(<<>>, <<"2">>, Date0108),
      SubForm(<<"b">>, <<"-", "3">>, Date0109),
      SubForm(<<"b">>, <<"x">>, Date0109),
      SubForm(<<"a">>, <<"2">>, <<>>),
      SubForm(<<"a">>, <<"2">>, Date0230) }

SubIds == 1..(MaxSubs + 1)

Next ==
    \/ \E c \in Browsers, f \in Accounts : signup(c, f)
    \/ \E c \in Browsers : signup_commit(c)
    \/ \E c \in Browsers, f \in Accounts : login(c, f)
    \/ \E c \in Browsers : logout(c)
    \/ \E c \in Browsers, f \in SubForms : index_POST(c, f) /\ Room(MaxSubs)
    \/ \E c \in Browsers : index_POST_commit(c)
    \/ \E c \in Browsers : index_GET(c)
    \/ \E c \in Browsers, i \in SubIds : delete(c, i)

Spec == Init /\ [][Next]_vars

----------------------------------------------------------------------------
(* SpecClock: one browser, one account, the dashboard as the days pass *)

DatedForms ==
    { SubForm(<<"a">>, <<"2">>, Date0108),
      SubForm(<<"b">>, <<"3">>, Date0109),
      SubForm(<<"c">>, <<"5">>, Date1231),
      SubForm(<<"d">>, <<"1">>, <<"2", "0", "2", "4", "-", "1", "-", "1", "0">>) }

NextClock ==
    \/ \E c \in Browsers : signup(c, Credentials(EmailA, <<"p">>))
    \/ \E c \in Browsers : signup_commit(c)
    \/ \E c \in Browsers, f \in DatedForms : index_POST(c, f) /\ Room(MaxSubs)
    \/ \E c \in Browsers : index_POST_commit(c)
    \/ \E c \in Browsers : index_GET(c)
    \/ \E c \in Browsers, i \in SubIds : delete(c, i)
    \/ Tick

SpecClock == Init /\ [][NextClock]_vars

----------------------------------------------------------------------------
(* SpecQuota: two browsers whose requests interleave, one form that parses *)
(* and one that does not, a table large enough for the free plan's limit   *)
(* to be passed.                                                           *)

QuotaForm == SubForm(<<"a">>, <<"2">>, Date0108)

QuotaForms == {QuotaForm, SubForm(<<"a">>, <<"x">>, Date0108)}

QuotaAccounts == {Credentials(EmailA, <<"p">>)}

QuotaSubIds == {1, FREE_LIMIT + 1}

NextQuota ==
    \/ \E c \in Clients, f \in QuotaAccounts : signup(c, f)
    \/ \E c \in Clients : signup_commit(c)
    \/ \E c \in Clients, f \in QuotaAccounts : login(c, f)
    \/ \E c \in Clients, f \in QuotaForms : index_POST(c, f) /\ Room(FREE_LIMIT + 2)
    \/ \E c \in Clients : index_POST_commit(c)
    \/ \E c \in Clients, i \in QuotaSubIds : delete(c, i)
    \/ \E c \in Clients, a \in StripeAnswers : upgrade_success(c, <<"s">>, a)

SpecQuota == Init /\ [][NextQuota]_vars

----------------------------------------------------------------------------
(* SpecAuth: two browsers whose requests interleave; accounts, sessions    *)
(* and the upgrade.                                                        *)

SignupForms ==
    { Credentials(EmailA, <<"p">>),
      Credentials(EmailUpperA, <<"q">>),
      Credentials(EmailPaddedA, <<"p">>),
      Credentials(EmailB, <<" ", "q">>),
      Credentials(<<" ">>, <<"p">>),
      Credentials(EmailB, <<>>) }

LoginForms ==
    { Credentials(EmailA, <<"p">>),
      Credentials(EmailUpperA, <<"p">>),
      Credentials(EmailA, <<"q">>),
      Credentials(EmailB, <<"q">>),
      Credentials(EmailB, <<"p">>) }

SessionIds == {<<>>, <<"s">>}

NextAuth ==
    \/ \E c \in Clients, f \in SignupForms : signup(c, f)
    \/ \E c \in Clients : signup_commit(c)
    \/ \E c \in Clients, f \in LoginForms : login(c, f)
    \/ \E c \in Clients : logout(c)
    \/ \E c \in Clients : index_POST(c, QuotaForm) /\ Room(AuthSubs)
    \/ \E c \in Clients : index_POST_commit(c)
    \/ \E c \in Clients, s \in SessionIds, a \in StripeAnswers : upgrade_success(c, s, a)

SpecAuth == Init /\ [][NextAuth]_vars

----------------------------------------------------------------------------
(* Properties *)

\* the forms, among F, that a step of client c can have read: the one its
\* answer names and the one it has put in flight
Read(c, F) ==
    {f \in F : \/ (last'.client = c /\ last'.form = f)
               \/ (req'[c] # NoReq /\ req'[c].form = f)}

RECURSIVE SetSum(_)
SetSum(S) ==
    IF S = {} THEN 0
    ELSE LET x == CHOOSE y \in S : TRUE IN x.price + SetSum(S \ {x})

Rows(uid) == {s \in subs : s.user_id = uid}

\* C1: a logged-in owner who is on the free plan and holds FREE_LIMIT or more
\* subscriptions has every add, whatever its form, answered by the quota
\* message, with the table untouched and nothing left in flight; the add of a
\* premium owner is never answered by the quota message, and when its form
\* is valid it goes on to its insert whatever the number of rows held.
QuotaOnAdd ==
    [][\A c \in Clients : \A f \in Read(c, QuotaForms) :
          (index_POST(c, f) /\ session[c] # 0) =>
              LET u == session[c]
                  held == Cardinality(Rows(u))
              IN  /\ (~users[u].premium /\ held >= FREE_LIMIT) =>
                        /\ last' = Response(c, "index", f, 302, MsgQuota, "index", NoView)
                        /\ subs' = subs
                        /\ pc'[c] = "idle"
                  /\ users[u].premium =>
                        IF f = QuotaForm
                        THEN /\ pc'[c] = "add_commit"
                             /\ req'[c] = [form |-> f, user_id |-> u]
                             /\ last' = last
                        ELSE last'.flash = MsgInvalid]_vars

\* C1 witness: the quota message has just answered the add of a free owner who
\* holds FREE_LIMIT subscriptions.
QuotaAnswered ==
    /\ last.route = "index"
    /\ last.flash = MsgQuota
    /\ session[last.client] # 0
    /\ ~users[session[last.client]].premium
    /\ Cardinality(Rows(session[last.client])) = FREE_LIMIT

\* C10: in every state a user on the free plan holds at most FREE_LIMIT
\* subscriptions, however the add requests of that user interleave.
FreeTierWithinLimit ==
    \A u \in UserIds : ~users[u].premium => Cardinality(Rows(u)) <= FREE_LIMIT

\* C2: a delete by a logged-in owner removes the row with that id when the row
\* exists and is the owner's, and the owner's rows then hold no such id; when
\* the id is absent or is another owner's the answer is the same 404 and the
\* table, the other owner's row included, is as before.
OwnerScopedDelete ==
    [][\A c \in Browsers, i \in SubIds :
          (delete(c, i) /\ session[c] # 0) =>
              LET owner == session[c]
                  own == \E s \in subs : s.id = i /\ s.user_id = owner
              IN  IF own
                  THEN /\ subs' = {s \in subs : s.id # i}
                       /\ \A s \in subs' : s.user_id = owner => s.id # i
                       /\ last'.status = 302 /\ last'.flash = MsgDeleted
                  ELSE /\ subs' = subs
                       /\ last' = Response(c, "delete", [sub_id |-> i], 404, "", "",
                                           NoView)]_vars

\* C2 witness: a delete aimed at another owner's row was answered 404 and the
\* row is still in the table.
ForeignDeleteRefused ==
    /\ last.route = "delete"
    /\ last.status = 404
    /\ session[last.client] # 0
    /\ \E s \in subs : s.id = last.form.sub_id /\ s.user_id # session[last.client]

\* C3: every stored subscription has a non-empty name and a price >= 0 (an add
\* stores a row only when the name is non-empty and the price non-negative).
StoredSubscriptionsValid ==
    \A s \in subs : s.name # <<>> /\ s.price >= 0

\* C4, as the claim states it: the row an add stores carries the name as it was
\* submitted.
AddCarriesSubmittedName ==
    [][\A c \in Browsers :
          index_POST_commit(c) =>
              \E r \in subs' \ subs : r.name = req[c].form.name]_vars

ValidForm(f) ==
    /\ strip(f.name) # <<>>
    /\ float(f.price).ok /\ float(f.price).val >= 0
    /\ strptime(strip(f.date)).ok

\* C4, amended: a valid form submitted by an owner under the quota, or premium,
\* goes on to its insert, and the insert adds exactly one row to the table: a
\* new id, the submitted name without its surrounding blanks, the number and
\* the date the price and date texts denote, and the owner's id; the rows of
\* every other owner stay as they were.
AddThenList ==
    [][\A c \in Browsers :
          /\ \A f \in Read(c, SubForms) :
                (/\ session[c] # 0 /\ index_POST(c, f) /\ ValidForm(f)
                 /\ (users[session[c]].premium
                        \/ Cardinality(Rows(session[c])) < FREE_LIMIT))
                    => /\ pc'[c] = "add_commit"
                       /\ req'[c] = [form |-> f, user_id |-> session[c]]
          /\ index_POST_commit(c) =>
                LET f == req[c].form
                    u == req[c].user_id
                IN  /\ \E r \in subs' :
                          /\ subs' = subs \cup {r}
                          /\ \A s \in subs : s.id # r.id
                          /\ r.name = strip(f.name)
                          /\ r.price = float(f.price).val
                          /\ r.renewal_date = strptime(strip(f.date)).val
                          /\ r.user_id = u
                    /\ \A v \in UserIds \ {u} :
                          {s \in subs' : s.user_id = v} = Rows(v)
                    /\ last'.flash = MsgAdded]_vars

\* C4 witness: a form whose name had surrounding blanks was added, and the
\* owner's rows hold the name without them.
PaddedNameAdded ==
    /\ last.route = "index"
    /\ last.flash = MsgAdded
    /\ last.form.name # strip(last.form.name)
    /\ strip(last.form.name) # <<>>
    /\ \E r \in Rows(session[last.client]) : r.name = strip(last.form.name)

DueSoonWindow ==
    [][\A c \in Browsers :
          (index_GET(c) /\ session[c] # 0) =>
              LET listed == last'.view.subscriptions
                  due == SelectSeq(listed,
                             LAMBDA s : today <= s.renewal_date
                                            /\ s.renewal_date <= today + 7)
              IN  last'.view.upcoming_names = [i \in 1..Len(due) |-> due[i].name]]_vars

\* trimmed and lowercased, of the letters the clients type
Normalized(email) ==
    /\ email # <<>>
    /\ ~IsSpace(email[1]) /\ ~IsSpace(email[Len(email)])
    /\ \A k \in 1..Len(email) : email[k] \notin {"A", "B", "X"}

\* the stored form of the emails the clients type
NormalForm(email) ==
    IF email \in {EmailA, EmailUpperA, EmailPaddedA} THEN EmailA ELSE email

Registered(email) == \E i \in UserIds : users[i].email = NormalForm(email)

NonBlank(text) == \E k \in 1..Len(text) : ~IsSpace(text[k])

MarkPremiumIdempotent ==
    [][\A c \in Clients :
          (upgrade_success(c, <<"s">>, "paid") /\ session[c] # 0) =>
              LET u == session[c]
              IN  /\ users'[u].premium
                  /\ \A v \in UserIds \ {u} : users'[v] = users[v]
                  /\ mark_premium(users', u) = users'
                  /\ last' = Response(c, "upgrade_success",
                                      [session_id |-> <<"s">>, premium |-> users[u].premium],
                                      302, MsgUpgraded, "index", NoView)
                  /\ users[u].premium =>
                        /\ users' = users
                        /\ subs' = subs
                        /\ session' = session
                        /\ pc' = pc /\ req' = req]_vars

\* C7 witness: the success message has answered a paid checkout of a user who
\* was premium before it, and who holds a subscription.
PaidAgain ==
    /\ last.route = "upgrade_success"
    /\ last.flash = MsgUpgraded
    /\ last.form.premium
    /\ users[session[last.client]].premium
    /\ Rows(session[last.client]) # {}

WrongPassword(f) ==
    \E i \in UserIds :
        /\ users[i].email = NormalForm(f.email)
        /\ users[i].password_hash # <<"hash", f.password>>

\* C8: a login with a registered email and a wrong password, and a login with
\* an email that is not registered, get one and the same answer (message,
\* redirect), start no session and change nothing stored.
UniformLoginFailure ==
    [][\A c \in Clients : \A f \in Read(c, LoginForms) :
          (login(c, f) /\ (WrongPassword(f) \/ ~Registered(f.email))) =>
              /\ last'.status = 302
              /\ last'.flash = MsgBadLogin
              /\ last'.to = "login"
              /\ last'.view = NoView
              /\ session' = session
              /\ users' = users
              /\ subs' = subs]_vars

\* C8 witness: a login with a registered email and a wrong password has been
\* refused.
RegisteredEmailRefused ==
    /\ last.route = "login"
    /\ last.flash = MsgBadLogin
    /\ Registered(last.form.email)
    /\ WrongPassword(last.form)

====
